---- MODULE Spec2Model ----
(***************************************************************************)
(* Model of src/main.py: the Python 2 -> 3.9 update script.                *)
(*                                                                         *)
(* A run is the `__main__` block: it checks that the source and the        *)
(* destination directory exist, binds the module-level logger and calls    *)
(* main().  main() probes the interpreter version, scans and judges the    *)
(* dependencies, previews the rewrite of every .py file, prompts, and on   *)
(* 'y' copies the source tree and runs the rewrite tool in write mode.     *)
(*                                                                         *)
(* Text (tool output, file names, user input, log lines) is a sequence of  *)
(* one-character strings, so that the regular expressions, strip(),        *)
(* lower(), startswith() and endswith() are computed as the code computes  *)
(* them.  The external collaborators (python, pipdeptree, the marker       *)
(* evaluator, 2to3, stdin, the file system) are nondeterministic.          *)
(***************************************************************************)
EXTENDS Naturals, Sequences, FiniteSets, TLC

\* ------------------------------------------------------------------ bounds

\* largest number of files in the source tree
MaxFiles == 2

\* largest number of lines in the output of the dependency-tree tool
MaxDeps == 2

\* ------------------------------------------------------------- characters

Digits == {"0", "1", "2", "3", "4", "5", "6", "7", "8", "9"}

LowerLetters ==
  <<"a", "b", "c", "d", "e", "f", "g", "h", "i", "j", "k", "l", "m",
    "n", "o", "p", "q", "r", "s", "t", "u", "v", "w", "x", "y", "z">>

UpperLetters ==
  <<"A", "B", "C", "D", "E", "F", "G", "H", "I", "J", "K", "L", "M",
    "N", "O", "P", "Q", "R", "S", "T", "U", "V", "W", "X", "Y", "Z">>

Range(f) == {f[i] : i \in DOMAIN f}

\* the character class [a-zA-Z0-9_-] of the dependency pattern
NameChars == Range(LowerLetters) \cup Range(UpperLetters) \cup Digits \cup {"_", "-"}

\* the character class [0-9.] of the dependency pattern
VersionChars == Digits \cup {"."}

\* what str.strip() removes
Whitespace == {" ", "\t", "\n", "\r"}

\* ------------------------------------------------------- string functions

LowerChar(c) ==
  IF \E i \in DOMAIN UpperLetters : UpperLetters[i] = c
  THEN LowerLetters[CHOOSE i \in DOMAIN UpperLetters : UpperLetters[i] = c]
  ELSE c

\* str.lower()
lower(s) == [i \in 1..Len(s) |-> LowerChar(s[i])]

RECURSIVE lstrip(_)
lstrip(s) == IF s # <<>> /\ Head(s) \in Whitespace THEN lstrip(Tail(s)) ELSE s

RECURSIVE rstrip(_)
rstrip(s) ==
  IF s # <<>> /\ s[Len(s)] \in Whitespace THEN rstrip(SubSeq(s, 1, Len(s) - 1)) ELSE s

\* str.strip()
strip(s) == rstrip(lstrip(s))

\* str.startswith(p)
startswith(s, p) == Len(s) >= Len(p) /\ SubSeq(s, 1, Len(p)) = p

\* str.endswith(p)
endswith(s, p) == Len(s) >= Len(p) /\ SubSeq(s, Len(s) - Len(p) + 1, Len(s)) = p

\* p occurs in s at position i
HasAt(s, i, p) == i + Len(p) - 1 <= Len(s) /\ SubSeq(s, i, i + Len(p) - 1) = p

\* p in s
contains(s, p) == \E i \in 1..Len(s) : HasAt(s, i, p)

RECURSIVE RunLen(_, _, _)
\* length of the longest run of characters of class cls in s from position i:
\* what a greedy cls+ consumes
RunLen(s, i, cls) ==
  IF i <= Len(s) /\ s[i] \in cls THEN 1 + RunLen(s, i + 1, cls) ELSE 0

RECURSIVE Flatten(_)
Flatten(ss) == IF ss = <<>> THEN <<>> ELSE Head(ss) \o Flatten(Tail(ss))

\* ---------------------------------------------------------------- literals

PythonSp == <<"P", "y", "t", "h", "o", "n", " ">>
Dot == <<".">>
EqEq == <<"=", "=">>
DotPy == <<".", "p", "y">>
Slash == <<"/">>
Newline == <<"\n">>
TargetPrefix == <<"3", ".", "9">>
ChangesFor == <<"C", "h", "a", "n", "g", "e", "s", " ", "f", "o", "r", " ">>
ColonNewline == <<":", "\n">>
Yes == <<"y">>
No == <<"n">>

\* the two directories of the __main__ block (placeholders in the source)
source_directory == <<"s">>
destination_directory == <<"d">>

\* ------------------------------------------------------ regular expressions

\* group(1) of r"Python (\d+\.\d+\.\d+)" matched at position i of s, <<>> when
\* the pattern does not match there (each \d+ is greedy; the character after
\* a run of digits is not a digit, so backtracking finds nothing more)
VersionAt(s, i) ==
  LET a == i + Len(PythonSp)
      n1 == RunLen(s, a, Digits)
      b == a + n1 + 1
      n2 == RunLen(s, b, Digits)
      c == b + n2 + 1
      n3 == RunLen(s, c, Digits)
  IN  IF /\ HasAt(s, i, PythonSp)
         /\ n1 > 0 /\ HasAt(s, a + n1, Dot)
         /\ n2 > 0 /\ HasAt(s, b + n2, Dot)
         /\ n3 > 0
      THEN SubSeq(s, a, c + n3 - 1)
      ELSE <<>>

\* re.search(r"Python (\d+\.\d+\.\d+)", s): the positions where it matches
MatchPositions(s) == {i \in 1..Len(s) : VersionAt(s, i) # <<>>}

\* re.search(...) is None
re_search_is_None(s) == MatchPositions(s) = {}

\* re.search(...).group(1): the leftmost match
re_search_group1(s) ==
  VersionAt(s, CHOOSE i \in MatchPositions(s) : \A j \in MatchPositions(s) : i <= j)

RECURSIVE re_findall(_, _)
\* re.findall(r'([a-zA-Z0-9_-]+)==([0-9.]+)', s) scanning from position i:
\* the non-overlapping matches, left to right, as <<name, version>> pairs
re_findall(s, i) ==
  IF i > Len(s) THEN <<>>
  ELSE LET n == RunLen(s, i, NameChars)
           e == i + n
           v == RunLen(s, e + Len(EqEq), VersionChars)
       IN  IF n > 0 /\ HasAt(s, e, EqEq) /\ v > 0
           THEN << <<SubSeq(s, i, e - 1), SubSeq(s, e + 2, e + 1 + v)>> >>
                  \o re_findall(s, e + 2 + v)
           ELSE re_findall(s, i + 1)

\* os.path.join(root, file_name)
os_path_join(root, file_name) == root \o Slash \o file_name

\* ------------------------------------------------------------ environment

\* the sequences over S of length at most n
BSeq(S, n) == UNION {[1..k -> S] : k \in 0..n}

\* what `python --version` can print and exit with
Out397 == <<"P", "y", "t", "h", "o", "n", " ", "3", ".", "9", ".", "7", "\n">>
Out3810 == <<"P", "y", "t", "h", "o", "n", " ", "3", ".", "8", ".", "1", "0", "\n">>
Out3901 == <<"P", "y", "t", "h", "o", "n", " ", "3", ".", "9", "0", ".", "1", "\n">>
OutTwoPart == <<"P", "y", "t", "h", "o", "n", " ", "3", ".", "9", "\n">>
OutError == <<" ", "n", "o", "\n">>

ProbeResults ==
  {[rc |-> 0, out |-> o] : o \in {Out397, Out3810, Out3901, OutTwoPart}}
    \cup {[rc |-> 1, out |-> OutError]}

\* lines `pipdeptree -w` can print
LineAb == <<"a", "b", "=", "=", "1", ".", "0", "\n">>
LineCd == <<" ", "-", " ", "c", "-", "d", "=", "=", "2", "\n">>
LineJunk == <<"x", "=", "1", "\n">>

PipResults ==
  {[rc |-> 0, out |-> Flatten(ls)] : ls \in BSeq({LineAb, LineCd, LineJunk}, MaxDeps)}
    \cup {[rc |-> 1, out |-> <<>>]}

\* what the marker evaluator does with one name/version pair
Verdicts == {"compatible", "incompatible", "raises"}

\* files a source tree can hold, in the order os.walk lists them (top-down)
FileUniverse ==
  << [root |-> source_directory, name |-> <<"a", ".", "p", "y">>],
     [root |-> source_directory, name |-> <<"b", ".", "t", "x", "t">>],
     [root |-> source_directory, name |-> <<"c", ".", "p", "y", "c">>],
     [root |-> source_directory \o <<"/", "p">>, name |-> <<"e", ".", "p", "y">>],
     [root |-> source_directory \o <<"/", "p", "/", "q">>, name |-> <<".", "p", "y">>] >>

InTree(T, f) == f \in T

\* the source trees: at most MaxFiles files of the universe
Trees ==
  {SelectSeq(FileUniverse, LAMBDA f : InTree(T, f)) :
     T \in {U \in SUBSET Range(FileUniverse) : Cardinality(U) <= MaxFiles}}

\* what `2to3 -n <file>` can print when it exits 0
DiffTexts == {<<>>, <<"-", "+">>}

\* what input() can return: a line, or EOFError on a closed stdin
InputLines ==
  { <<"Y">>, <<"y">>, <<" ", "Y", " ">>, <<"N">>, <<"n">>, <<"y", "e", "s">>, <<>> }

InputResults ==
  {[eof |-> FALSE, line |-> l] : l \in InputLines} \cup {[eof |-> TRUE, line |-> <<>>]}

\* ------------------------------------------------------------------ state

VARIABLES
  pc,                         \* where the run is
  outcome,                    \* how the run ended ("" while it runs)
  trace,                      \* the workflow states of main() entered so far
  srcExists, dstExists,       \* os.path.exists of the two directories
  srcTree,                    \* the files of the source tree, in walk order
  dstTree,                    \* the files copied to the destination
  written,                    \* the directories the run has written into
  logger,                     \* the module-level name `logger` is bound
  current_python_version,
  dependencies,
  incompatible_dependencies,
  dep_i,                      \* position of the loop of line 82
  verdicts,                   \* what the marker evaluator answered so far
  file_i,                     \* position of the walk of lines 44-45
  proposed_changes,           \* the dict of dry_run_2to3, in insertion order
  changes_log,                \* changes_for_update.log
  concerns_log,               \* compatibility-concerns.log
  user_input,
  logs,                       \* the records given to the logger
  events                      \* the external calls made, in order

vars ==
  <<pc, outcome, trace, srcExists, dstExists, srcTree, dstTree, written, logger,
    current_python_version, dependencies, incompatible_dependencies, dep_i,
    verdicts, file_i, proposed_changes, changes_log, concerns_log, user_input,
    logs, events>>

NoFile == [exists |-> FALSE, text |-> <<>>]

Init ==
  /\ pc = "entry"
  /\ outcome = ""
  /\ trace = <<>>
  /\ srcExists \in BOOLEAN
  /\ dstExists \in BOOLEAN
  /\ srcTree \in Trees
  /\ dstTree = <<>>
  /\ written = {}
  /\ logger = FALSE
  /\ current_python_version = <<>>
  /\ dependencies = <<>>
  /\ incompatible_dependencies = <<>>
  /\ dep_i = 1
  /\ verdicts = {}
  /\ file_i = 1
  /\ proposed_changes = <<>>
  /\ changes_log = NoFile
  /\ concerns_log = NoFile
  /\ user_input = <<>>
  /\ logs = <<>>
  /\ events = <<>>

\* --------------------------------------------------------------- helpers

Info(msg, arg) == [level |-> "INFO", msg |-> msg, arg |-> arg]
Error(msg, arg) == [level |-> "ERROR", msg |-> msg, arg |-> arg]

Event(op, target, rc, out) == [op |-> op, target |-> target, rc |-> rc, out |-> out]

\* d[k] = v on a dict kept as a sequence of [key, value] in insertion order
DictSet(d, k, v) ==
  IF \E i \in DOMAIN d : d[i].key = k
  THEN [i \in DOMAIN d |-> IF d[i].key = k THEN [key |-> k, value |-> v] ELSE d[i]]
  ELSE Append(d, [key |-> k, value |-> v])

\* where main() continues when it enters a workflow state
EntryPc(state) ==
  CASE state = "ProbeVersion" -> "probe"
    [] state = "CheckDependencies" -> "scan"
    [] state = "PreviewMigration" -> "walk"
    [] state = "AwaitConfirmation" -> "prompt"
    [] state = "Execute" -> "copy"
    [] OTHER -> "done"

\* ------------------------------------------------------ the code's decisions

\* scan_python_version with the CalledProcessError swallowed instead of
\* raised again as RuntimeError
scan_python_version_swallow(r) ==
  IF r.rc # 0 THEN [raised |-> "none", value |-> <<>>]
  ELSE IF re_search_is_None(r.out) THEN [raised |-> "AttributeError", value |-> <<>>]
  ELSE [raised |-> "none", value |-> re_search_group1(r.out)]

\* scan_python_version on what the interpreter printed and exited with
scan_python_version(r) ==
  IF r.rc # 0 THEN [raised |-> "RuntimeError", value |-> strip(r.out)]
  ELSE IF re_search_is_None(r.out) THEN [raised |-> "AttributeError", value |-> <<>>]
  ELSE [raised |-> "none", value |-> re_search_group1(r.out)]

\* current_python_version == "3.9" in place of startswith
IsTargetVersion_exact(v) == v = TargetPrefix

\* current_python_version.startswith("3.9")
IsTargetVersion(v) == startswith(v, TargetPrefix)

\* the if/else of Step 2
Step2Branch(v) == IF IsTargetVersion(v) THEN "AlreadyTarget" ELSE "CheckDependencies"

\* scan_dependencies on the output of the dependency-tree tool
scan_dependencies(out) == re_findall(out, 1)

\* the else branch calling the prompt without the dry run
CompatBranch_skipPreview(incompatible) ==
  IF incompatible # <<>> THEN "ReportIncompatible" ELSE "AwaitConfirmation"

\* the if/else on incompatible_dependencies
CompatBranch(incompatible) ==
  IF incompatible # <<>> THEN "ReportIncompatible" ELSE "PreviewMigration"

\* f"{name}={version}\n": one '=' lost
FormatDep_oneEquals(d) == d[1] \o <<"=">> \o d[2] \o Newline

\* f"{name}=={version}\n"
FormatDep(d) == d[1] \o EqEq \o d[2] \o Newline

\* ".py" in file_name in place of endswith
IsSourceFile_contains(file_name) == contains(file_name, DotPy)

\* file_name.endswith(".py")
IsSourceFile(file_name) == endswith(file_name, DotPy)

\* the output recorded in the except branch too
RecordProposed_always(proposed, file_path, r) == DictSet(proposed, file_path, r.out)

\* the try/except around one dry run: what proposed_changes becomes
RecordProposed(proposed, file_path, r) ==
  IF r.rc = 0 THEN DictSet(proposed, file_path, r.out) ELSE proposed

\* f"Changes for {file_path}:\n{changes}\n"
Section(e) == ChangesFor \o e.key \o ColonNewline \o e.value \o Newline

\* the if/elif/else on user_input
ConfirmBranch(u) ==
  IF u = Yes THEN "Execute" ELSE IF u = No THEN "Cancelled" ELSE "InvalidInput"

\* 2to3 --write given the source directory
RewriteTarget_source(src, dst) == src

\* the directory given to 2to3 --write
RewriteTarget(src, dst) == dst

\* ---------------------------------------------------------------- actions

fsVars == <<srcExists, dstExists, srcTree, dstTree, written>>
depVars == <<dependencies, incompatible_dependencies, dep_i, verdicts>>
dryVars == <<file_i, proposed_changes, changes_log>>

\* the __main__ block: the two existence checks, setup_logging, main()
EntryPoint ==
  /\ pc = "entry"
  /\ IF ~srcExists
     THEN pc' = "done" /\ outcome' = "source_not_found" /\ UNCHANGED <<logger, trace>>
     ELSE IF ~dstExists
     THEN pc' = "done" /\ outcome' = "destination_not_found" /\ UNCHANGED <<logger, trace>>
     ELSE /\ logger' = TRUE
          /\ trace' = <<"ProbeVersion">>
          /\ pc' = EntryPc("ProbeVersion")
          /\ outcome' = outcome
  /\ UNCHANGED <<fsVars, depVars, dryVars, current_python_version, concerns_log,
                 user_input, logs, events>>

\* Step 1 of main(): scan_python_version and the except RuntimeError
ProbeVersion ==
  /\ pc = "probe"
  /\ \E r \in ProbeResults :
       LET res == scan_python_version(r) IN
       /\ events' = Append(events, Event("python --version", source_directory, r.rc, r.out))
       /\ IF res.raised = "none"
          THEN /\ current_python_version' = res.value
               /\ logs' = Append(logs, Info("Detected Python version", res.value))
               /\ pc' = "version_check"
               /\ outcome' = outcome
          ELSE IF res.raised = "RuntimeError"
          THEN /\ logs' = Append(logs, Error("Failed to determine Python version", res.value))
               /\ pc' = "done"
               /\ outcome' = "probe_error"
               /\ UNCHANGED current_python_version
          ELSE \* AttributeError: no handler in scan_python_version nor in main
               /\ pc' = "done"
               /\ outcome' = "uncaught_exception"
               /\ UNCHANGED <<current_python_version, logs>>
  /\ UNCHANGED <<fsVars, depVars, dryVars, trace, logger, concerns_log, user_input>>

\* Step 2 of main(): already 3.9.x, or on to the dependencies
CheckVersion ==
  /\ pc = "version_check"
  /\ LET b == Step2Branch(current_python_version) IN
       /\ trace' = Append(trace, b)
       /\ pc' = EntryPc(b)
       /\ IF b = "AlreadyTarget"
          THEN /\ logs' = Append(logs, Info("Python version is already 3.9.x", <<>>))
               /\ outcome' = "already_target"
          ELSE UNCHANGED <<logs, outcome>>
  /\ UNCHANGED <<fsVars, depVars, dryVars, logger, current_python_version,
                 concerns_log, user_input, events>>

\* scan_dependencies(); a non-zero exit reaches the outer except Exception
ScanDependencies ==
  /\ pc = "scan"
  /\ \E r \in PipResults :
       /\ events' = Append(events, Event("pipdeptree -w", <<>>, r.rc, <<>>))
       /\ IF r.rc # 0
          THEN /\ logs' = Append(logs, Error("Error during dependency scan", <<>>))
               /\ pc' = "done"
               /\ outcome' = "scan_error"
               /\ UNCHANGED depVars
          ELSE /\ dependencies' = scan_dependencies(r.out)
               /\ incompatible_dependencies' = <<>>
               /\ dep_i' = 1
               /\ pc' = "compat"
               /\ UNCHANGED <<logs, outcome, verdicts>>
  /\ UNCHANGED <<fsVars, dryVars, trace, logger, current_python_version,
                 concerns_log, user_input>>

\* one turn of the loop over dependencies: is_compatible(name, version)
JudgeDependency ==
  /\ pc = "compat"
  /\ dep_i <= Len(dependencies)
  /\ LET d == dependencies[dep_i] IN
     \E v \in Verdicts :
       /\ \A w \in verdicts : w.dep = d => w.verdict = v
       /\ verdicts' = verdicts \cup {[dep |-> d, verdict |-> v]}
       /\ events' = Append(events, Event("is_compatible", d[1] \o EqEq \o d[2],
                                         IF v = "raises" THEN 1 ELSE 0, <<>>))
       /\ IF v = "raises"
          THEN /\ logs' = Append(logs, Error("Error during dependency scan", <<>>))
               /\ pc' = "done"
               /\ outcome' = "scan_error"
               /\ UNCHANGED <<incompatible_dependencies, dep_i>>
          ELSE /\ incompatible_dependencies' =
                    IF v = "incompatible"
                    THEN Append(incompatible_dependencies, d)
                    ELSE incompatible_dependencies
               /\ dep_i' = dep_i + 1
               /\ UNCHANGED <<logs, pc, outcome>>
  /\ UNCHANGED <<fsVars, dryVars, trace, logger, current_python_version,
                 dependencies, concerns_log, user_input>>

\* after the loop: write compatibility-concerns.log, or go on to the dry run
ReportOrPreview ==
  /\ pc = "compat"
  /\ dep_i > Len(dependencies)
  /\ LET b == CompatBranch(incompatible_dependencies)
         inc == incompatible_dependencies
     IN
       /\ trace' = Append(trace, b)
       /\ pc' = EntryPc(b)
       /\ IF b = "ReportIncompatible"
          THEN /\ concerns_log' =
                    [exists |-> TRUE,
                     text |-> Flatten([i \in 1..Len(inc) |-> FormatDep(inc[i])])]
               /\ logs' = logs
                    \o <<Info("The following dependencies are not compatible", <<>>)>>
                    \o [i \in 1..Len(inc) |-> Info("dependency", inc[i][1] \o EqEq \o inc[i][2])]
                    \o <<Info("Please review the compatibility-concerns.log file", <<>>)>>
               /\ outcome' = "report_incompatible"
          ELSE /\ logs' = Append(logs, Info("All dependencies are compatible", <<>>))
               /\ UNCHANGED <<concerns_log, outcome>>
  /\ UNCHANGED <<fsVars, depVars, dryVars, logger, current_python_version,
                 user_input, events>>

\* what `2to3 -n <file>` can do: exit 0 with a diff, or exit non-zero
DryRunResults ==
  {[rc |-> 0, out |-> o] : o \in DiffTexts} \cup {[rc |-> 2, out |-> <<"e", "r", "r">>]}

\* one file of the walk of dry_run_2to3: a .py file is given to `2to3 -n`
DryRunFile ==
  /\ pc = "walk"
  /\ file_i <= Len(srcTree)
  /\ LET f == srcTree[file_i]
         file_path == os_path_join(f.root, f.name)
     IN
       IF IsSourceFile(f.name)
       THEN \E r \in DryRunResults :
              /\ events' = Append(events, Event("2to3 -n", file_path, r.rc, r.out))
              /\ proposed_changes' = RecordProposed(proposed_changes, file_path, r)
              /\ IF r.rc = 0
                 THEN /\ file_i' = file_i + 1
                      /\ UNCHANGED <<logs, pc, outcome>>
                 ELSE IF logger
                 THEN /\ logs' = Append(logs, Error("Error during dry run", file_path))
                      /\ file_i' = file_i + 1
                      /\ UNCHANGED <<pc, outcome>>
                 ELSE \* NameError in the handler, caught by main's inner except
                      /\ logs' = Append(logs, Error("Error during update", <<>>))
                      /\ pc' = "done"
                      /\ outcome' = "update_error"
                      /\ UNCHANGED file_i
       ELSE /\ file_i' = file_i + 1
            /\ UNCHANGED <<events, proposed_changes, logs, pc, outcome>>
  /\ UNCHANGED <<fsVars, depVars, trace, logger, current_python_version,
                 changes_log, concerns_log, user_input>>

\* the end of dry_run_2to3: changes_for_update.log is written; main() logs
\* and goes on to the prompt
DryRunWriteLog ==
  /\ pc = "walk"
  /\ file_i > Len(srcTree)
  /\ changes_log' =
       [exists |-> TRUE,
        text |-> Flatten([i \in 1..Len(proposed_changes) |-> Section(proposed_changes[i])])]
  /\ logs' = Append(logs, Info("Dry run completed", <<>>))
  /\ trace' = Append(trace, "AwaitConfirmation")
  /\ pc' = EntryPc("AwaitConfirmation")
  /\ UNCHANGED <<fsVars, depVars, file_i, proposed_changes, outcome, logger,
                 current_python_version, concerns_log, user_input, events>>

\* input(...).strip().lower() and the if/elif/else on it
Prompt ==
  /\ pc = "prompt"
  /\ \E r \in InputResults :
       /\ events' = Append(events, Event("input", <<>>, IF r.eof THEN 1 ELSE 0, r.line))
       /\ IF r.eof
          THEN \* EOFError, caught by the inner except Exception
               /\ logs' = Append(logs, Error("Error during update", <<>>))
               /\ pc' = "done"
               /\ outcome' = "update_error"
               /\ UNCHANGED <<user_input, trace>>
          ELSE LET u == lower(strip(r.line))
                   b == ConfirmBranch(u)
               IN  /\ user_input' = u
                   /\ trace' = Append(trace, b)
                   /\ pc' = EntryPc(b)
                   /\ IF b = "Execute"
                      THEN UNCHANGED <<logs, outcome>>
                      ELSE IF b = "Cancelled"
                      THEN /\ logs' = Append(logs, Info("Update canceled.", <<>>))
                           /\ outcome' = "cancelled"
                      ELSE /\ logs' = Append(logs, Error("Invalid input. Update canceled.", <<>>))
                           /\ outcome' = "invalid_input"
  /\ UNCHANGED <<fsVars, depVars, dryVars, logger, current_python_version, concerns_log>>

\* update_to_python_3_9, first line: shutil.copytree(source, destination),
\* which raises FileExistsError when the destination exists
Copy ==
  /\ pc = "copy"
  /\ IF dstExists
     THEN /\ events' = Append(events, Event("copytree", destination_directory, 1, <<>>))
          /\ logs' = Append(logs, Error("Error during update", <<>>))
          /\ pc' = "done"
          /\ outcome' = "update_error"
          /\ UNCHANGED <<dstExists, dstTree, written>>
     ELSE /\ events' = Append(events, Event("copytree", destination_directory, 0, <<>>))
          /\ dstExists' = TRUE
          /\ dstTree' = srcTree
          /\ written' = written \cup {destination_directory}
          /\ pc' = "rewrite"
          /\ UNCHANGED <<logs, outcome>>
  /\ UNCHANGED <<srcExists, srcTree, depVars, dryVars, trace, logger,
                 current_python_version, concerns_log, user_input>>

\* update_to_python_3_9, second line: subprocess.run of 2to3 in write mode
\* (no check=True: the exit status is not looked at), then main() logs
Rewrite ==
  /\ pc = "rewrite"
  /\ \E rc \in {0, 1} :
       LET target == RewriteTarget(source_directory, destination_directory) IN
       /\ events' = Append(events, Event("2to3 --write --nobackups", target, rc, <<>>))
       /\ written' = written \cup {target}
  /\ logs' = Append(logs, Info("Update to Python 3.9 successful.", <<>>))
  /\ pc' = "done"
  /\ outcome' = "success"
  /\ UNCHANGED <<srcExists, dstExists, srcTree, dstTree, depVars, dryVars, trace,
                 logger, current_python_version, concerns_log, user_input>>

\* the file system is not the program's alone: between the existence check
\* of the __main__ block and copytree the destination can be removed
DestinationRemoved ==
  /\ pc \in {"probe", "version_check", "scan", "compat", "walk", "prompt", "copy"}
  /\ dstExists
  /\ dstExists' = FALSE
  /\ UNCHANGED <<pc, outcome, trace, srcExists, srcTree, dstTree, written, logger,
                 current_python_version, depVars, dryVars, concerns_log, user_input,
                 logs, events>>

Next ==
  \/ EntryPoint
  \/ ProbeVersion
  \/ CheckVersion
  \/ ScanDependencies
  \/ JudgeDependency
  \/ ReportOrPreview
  \/ DryRunFile
  \/ DryRunWriteLog
  \/ Prompt
  \/ Copy
  \/ Rewrite
  \/ DestinationRemoved

Spec == Init /\ [][Next]_vars

\* ----------------------------------------------------- vocabulary of claims

Done == pc = "done"

\* main() was called
InMain == trace # <<>>

Last(s) == s[Len(s)]

PreviewOp == "2to3 -n"
WriteOp == "2to3 --write --nobackups"

\* positions in events of the calls of one kind
Calls(op) == {i \in DOMAIN events : events[i].op = op}

\* positions of the calls of one kind that returned without error
CallsOk(op) == {i \in Calls(op) : events[i].rc = 0}

\* the marker evaluator answered v for dependency d
Judged(d, v) == [dep |-> d, verdict |-> v] \in verdicts

\* the scanner returned and each entry of its list was judged
AllJudged ==
  /\ CallsOk("pipdeptree -w") # {}
  /\ \A i \in DOMAIN dependencies :
       Judged(dependencies[i], "compatible") \/ Judged(dependencies[i], "incompatible")

IsIncompatible(d) == Judged(d, "incompatible")

\* the entries of the scanner's list judged incompatible, in scanner order
JudgedIncompatible == SelectSeq(dependencies, IsIncompatible)

\* the answer given at the prompt, trimmed and lower-cased
Answered(u) ==
  \E i \in CallsOk("input") : lower(strip(events[i].out)) = u

\* the path of a file of the source tree
PathOf(f) == f.root \o Slash \o f.name

\* the workflow's transitions and terminal states
Edges ==
  { <<"ProbeVersion", "AlreadyTarget">>, <<"ProbeVersion", "CheckDependencies">>,
    <<"CheckDependencies", "ReportIncompatible">>,
    <<"CheckDependencies", "PreviewMigration">>,
    <<"PreviewMigration", "AwaitConfirmation">>,
    <<"AwaitConfirmation", "Execute">>, <<"AwaitConfirmation", "Cancelled">>,
    <<"AwaitConfirmation", "InvalidInput">> }

Terminals == {"AlreadyTarget", "ReportIncompatible", "Execute", "Cancelled", "InvalidInput"}

OnlyEdges ==
  /\ InMain => trace[1] = "ProbeVersion"
  /\ \A i \in 1..(Len(trace) - 1) : <<trace[i], trace[i + 1]>> \in Edges

\* ------------------------------------------------------------------ claims

\* C1 (as stated): when the run has ended, an answer that is 'y' after strip
\* and lower has led to the copy and then the write-mode rewrite; an answer
\* that is 'n' has led to cancellation with no copy and no write-mode
\* rewrite; any other answer has led to cancellation with an error logged,
\* no copy and no write-mode rewrite.
C1_AnswerDecidesMigration ==
  Done =>
    \A i \in CallsOk("input") :
      LET u == lower(strip(events[i].out)) IN
      /\ u = Yes =>
           \E j \in CallsOk("copytree") : \E k \in Calls(WriteOp) : i < j /\ j < k
      /\ u = No =>
           /\ Calls("copytree") = {} /\ Calls(WriteOp) = {}
           /\ outcome = "cancelled"
      /\ u \notin {Yes, No} =>
           /\ Calls("copytree") = {} /\ Calls(WriteOp) = {}
           /\ outcome = "invalid_input"
           /\ Last(logs).level = "ERROR"

\* the part of C1 that the code keeps: 'n' and any other answer cancel
C1_CancelPart ==
  Done =>
    \A i \in CallsOk("input") :
      LET u == lower(strip(events[i].out)) IN
      /\ u = Yes => Calls("copytree") # {}
      /\ u = No =>
           /\ Calls("copytree") = {} /\ Calls(WriteOp) = {}
           /\ outcome = "cancelled"
      /\ u \notin {Yes, No} =>
           /\ Calls("copytree") = {} /\ Calls(WriteOp) = {}
           /\ outcome = "invalid_input"
           /\ Last(logs).level = "ERROR"

\* C2 (as stated): a run from the entry point with a version that is not
\* 3.9, every dependency judged compatible and the answer 'y' ends with the
\* destination an exact copy of the source made before the write-mode rewrite
\* of the destination, in Execute, with the update reported successful.
C2_EntryRunUpdates ==
  (/\ Done
   /\ InMain
   /\ ~startswith(current_python_version, TargetPrefix)
   /\ CallsOk("python --version") # {}
   /\ AllJudged /\ JudgedIncompatible = <<>>
   /\ Answered(Yes))
  =>
   /\ \E j \in CallsOk("copytree") : \E k \in Calls(WriteOp) :
        j < k /\ events[k].target = destination_directory
   /\ dstTree = srcTree
   /\ Last(trace) = "Execute"
   /\ outcome = "success"
   /\ Last(logs) = Info("Update to Python 3.9 successful.", <<>>)

\* the line the spec gives for one incompatible dependency
ExpectedLine(d) == d[1] \o <<"=", "=">> \o d[2] \o <<"\n">>

\* the calls that come after the compatibility check
LaterCalls ==
  Calls(PreviewOp) \cup Calls("input") \cup Calls("copytree") \cup Calls(WriteOp)

Is39x(v) ==
  /\ Len(v) > 4
  /\ SubSeq(v, 1, 4) = <<"3", ".", "9", ".">>
  /\ \A i \in 5..Len(v) : v[i] \in Digits

\* C4: when the version probe reports a version 3.9.x, main() makes no
\* external call after the probe (no dependency scan, compatibility check,
\* dry run, prompt, copy or rewrite) and ends in AlreadyTarget.
C4_AlreadyTargetStops ==
  Is39x(current_python_version) =>
    /\ DOMAIN events = Calls("python --version")
    /\ pc \in {"version_check", "done"}
    /\ Done => /\ trace = <<"ProbeVersion", "AlreadyTarget">>
               /\ outcome = "already_target"

\* C4 witness: a run that ended on version 3.9.7
C4_Witness ==
  /\ Done
  /\ current_python_version = <<"3", ".", "9", ".", "7">>
  /\ outcome = "already_target"

\* the external processes whose exit status the tool should surface
ProcessOps == {"python --version", "pipdeptree -w", PreviewOp, WriteOp}

\* C5 (as stated): when the run has ended, each external process that
\* exited non-zero has an error logged after it, and no run reports the
\* update successful when the write-mode rewrite exited non-zero.
C5_FailuresSurfaced ==
  Done =>
    /\ \A i \in DOMAIN events :
         (events[i].op \in ProcessOps /\ events[i].rc # 0) =>
           \E l \in DOMAIN logs : logs[l].level = "ERROR"
    /\ (\E i \in Calls(WriteOp) : events[i].rc # 0) =>
         /\ outcome # "success"
         /\ \A l \in DOMAIN logs : logs[l].msg # "Update to Python 3.9 successful."

\* the part of C5 that the code keeps: the three calls made with
\* check_output surface a non-zero exit as a logged error
C5_CheckedCallsSurfaced ==
  \A i \in DOMAIN events :
    (events[i].op \in ProcessOps \ {WriteOp} /\ events[i].rc # 0) =>
      \E l \in DOMAIN logs : logs[l].level = "ERROR"

\* the version probe failed: non-zero exit, or output without the pattern
ProbeFailed ==
  \E i \in Calls("python --version") :
    events[i].rc # 0 \/ re_search_is_None(events[i].out)

\* C6 (as stated): a failed version probe ends the run with the error logged
\* by main and nothing invoked after the probe.
C6_ProbeFailureLogged ==
  ProbeFailed =>
    /\ Done
    /\ \E l \in DOMAIN logs : logs[l].level = "ERROR"
    /\ Len(events) = 1
    /\ trace = <<"ProbeVersion">>

\* C6 (amended): a failed version probe ends the run in ProbeVersion with
\* nothing invoked after the probe; a non-zero exit is logged by main as an
\* error and main returns; an output without the pattern raises an
\* exception that main does not catch, and main logs nothing.
C6_ProbeFailureEndsRun ==
  ProbeFailed =>
    /\ Done
    /\ Len(events) = 1
    /\ trace = <<"ProbeVersion">>
    /\ events[1].rc # 0 =>
         /\ outcome = "probe_error"
         /\ logs = <<Error("Failed to determine Python version", strip(events[1].out))>>
    /\ events[1].rc = 0 =>
         /\ outcome = "uncaught_exception"
         /\ logs = <<>>

\* C6 witness: the interpreter exited 0 and printed "Python 3.9", which the
\* pattern does not match
C6_Witness ==
  /\ Done
  /\ Len(events) = 1 /\ events[1].rc = 0 /\ events[1].out = OutTwoPart
  /\ outcome = "uncaught_exception"

\* the dry runs that exited non-zero, and those that exited 0
FailedPreviews == {i \in Calls(PreviewOp) : events[i].rc # 0}

IsOkPreview(e) == e.op = PreviewOp /\ e.rc = 0

\* the section the spec gives for one previewed file
ExpectedSection(e) ==
  <<"C", "h", "a", "n", "g", "e", "s", " ", "f", "o", "r", " ">>
    \o e.target \o <<":", "\n">> \o e.out \o <<"\n">>

\* the .py files of the source tree
PyFiles == {i \in DOMAIN srcTree : endswith(srcTree[i].name, <<".", "p", "y">>)}

\* the walk is over: dry_run_2to3 returned
WalkOver == "AwaitConfirmation" \in Range(trace)

\* C7: when a dry run of one file exits non-zero, the failure is logged as
\* an error naming the file and the walk goes on: the run is still walking
\* or has reached the prompt; once the walk is over every .py file was given
\* to the previewer, and changes_for_update.log exists and holds exactly one
\* 'Changes for {path}:' section per file whose dry run exited 0, in walk
\* order, and none for a failed file.
C7_DryRunFailureNonFatal ==
  FailedPreviews # {} =>
    /\ \A i \in FailedPreviews :
         \E l \in DOMAIN logs :
           logs[l] = Error("Error during dry run", events[i].target)
    /\ Last(trace) = "PreviewMigration" => pc = "walk"
    /\ "PreviewMigration" \in Range(trace)
    /\ changes_log.exists <=> WalkOver
    /\ WalkOver =>
         /\ \A f \in PyFiles :
              \E i \in Calls(PreviewOp) : events[i].target = PathOf(srcTree[f])
         /\ LET ok == SelectSeq(events, IsOkPreview) IN
            changes_log.text = Flatten([i \in 1..Len(ok) |-> ExpectedSection(ok[i])])

\* C7 witness: the prompt is reached after a walk in which one dry run
\* failed and another succeeded
C7_Witness ==
  /\ pc = "prompt"
  /\ FailedPreviews # {}
  /\ \E i \in Calls(PreviewOp) : events[i].rc = 0 /\ events[i].out # <<>>

\* the number of dry runs of one path
PreviewCount(path) == Cardinality({i \in Calls(PreviewOp) : events[i].target = path})

\* C8: in a run where the scanner's list has no incompatible entry, the dry
\* run follows the compatibility check; no file is previewed twice and no
\* file whose name does not end in '.py' is previewed; once the walk is over
\* each .py file of the tree, at any depth, was previewed exactly once; and
\* every preview comes before the prompt.
C8_PreviewOncePerPyFile ==
  /\ (AllJudged /\ JudgedIncompatible = <<>> /\ pc \notin {"scan", "compat"}) =>
       "PreviewMigration" \in Range(trace)
  /\ \A f \in DOMAIN srcTree :
       /\ PreviewCount(PathOf(srcTree[f])) <= 1
       /\ f \notin PyFiles => PreviewCount(PathOf(srcTree[f])) = 0
       /\ (WalkOver /\ f \in PyFiles) => PreviewCount(PathOf(srcTree[f])) = 1
  /\ \A i \in Calls(PreviewOp) :
       /\ \E f \in PyFiles : events[i].target = PathOf(srcTree[f])
       /\ \A j \in Calls("input") : i < j
  /\ Calls("input") # {} => WalkOver

\* C8 witness: the prompt is reached over a tree that holds a .py file in a
\* subdirectory, previewed, and a .pyc file, not previewed
C8_Witness ==
  /\ pc = "prompt"
  /\ \E f \in DOMAIN srcTree :
       /\ srcTree[f].root # source_directory
       /\ PreviewCount(PathOf(srcTree[f])) = 1
  /\ \E f \in DOMAIN srcTree :
       /\ srcTree[f].name = <<"c", ".", "p", "y", "c">>
       /\ PreviewCount(PathOf(srcTree[f])) = 0

\* C9 (as stated): main() takes only the listed transitions and ends in one
\* of AlreadyTarget, ReportIncompatible, Execute, Cancelled, InvalidInput or
\* an early exit of the version probe.
C9_OnlyListedTerminals ==
  /\ OnlyEdges
  /\ (Done /\ InMain) => (Last(trace) \in Terminals \/ Last(trace) = "ProbeVersion")

\* C9 (amended): main() takes only the listed transitions and ends in one of
\* AlreadyTarget, ReportIncompatible, Execute, Cancelled, InvalidInput, an
\* early exit of the version probe, or, when the dependency scanner, the
\* compatibility checker, the previewer or the prompt raises, in the state
\* it was in (CheckDependencies, PreviewMigration, AwaitConfirmation) with
\* the error caught and logged.
C9_TerminalsAndErrorExits ==
  /\ OnlyEdges
  /\ (Done /\ InMain) =>
       \/ Last(trace) \in Terminals
       \/ Last(trace) = "ProbeVersion" /\ outcome \in {"probe_error", "uncaught_exception"}
       \/ /\ Last(trace) = "CheckDependencies"
          /\ outcome = "scan_error"
          /\ Last(logs) = Error("Error during dependency scan", <<>>)
       \/ /\ Last(trace) \in {"PreviewMigration", "AwaitConfirmation"}
          /\ outcome = "update_error"
          /\ Last(logs) = Error("Error during update", <<>>)
  /\ (~Done /\ InMain) => Last(trace) \notin Terminals \ {"Execute"}

\* C9 witness: the run ended in CheckDependencies because the dependency
\* scanner exited non-zero
C9_Witness ==
  /\ Done /\ InMain
  /\ Last(trace) = "CheckDependencies"
  /\ \E i \in Calls("pipdeptree -w") : events[i].rc # 0

\* C10: the run never writes into the source directory: the rewrite tool is
\* given a path of the source tree only without --write; in write mode it is
\* given the destination directory only, and only after copytree returned,
\* which is called only after the dry run completed and the user answered
\* 'y'.
C10_SourceNeverWritten ==
  /\ source_directory \notin written
  /\ \A i \in DOMAIN events :
       /\ (events[i].op \in {PreviewOp, WriteOp} /\ startswith(events[i].target, source_directory))
            => events[i].op = PreviewOp
       /\ events[i].op = WriteOp =>
            /\ events[i].target = destination_directory
            /\ \E j \in CallsOk("copytree") : j < i
       /\ events[i].op = "copytree" =>
            /\ changes_log.exists
            /\ \E k \in CallsOk("input") :
                 /\ k < i
                 /\ lower(strip(events[k].out)) = Yes
                 /\ \A q \in Calls(PreviewOp) : q < k

\* C10 witness: a run in which the write-mode rewrite was invoked
C10_Witness ==
  /\ Done
  /\ Calls(WriteOp) # {}
  /\ written = {destination_directory}

====
